---------------------------- MODULE Spec2Model ----------------------------
(***************************************************************************)
(* A model of osg::Quat (src/src/osg/Quat.cpp): the quaternion value type  *)
(* and its conversions (angle/axis, vector to vector, slerp, matrix).      *)
(*                                                                         *)
(* Numbers.  The code computes in binary floating point (float storage,    *)
(* double intermediates).  The model computes in decimal fixed point: a    *)
(* number is an integer counting units of 1/Scale, so 1.0 is Scale and the *)
(* code's epsilon 0.00001 is 10 units.  Addition and subtraction are       *)
(* exact; products, quotients and the libm functions are rounded to the    *)
(* grid, as the code's are rounded to the float grid.  A product or        *)
(* quotient whose exact value is on the grid is exact (0.6*0.6 = 0.36,     *)
(* x/x = 1, sqrt(0.36) = 0.6).  NaN stands for every non-finite value: a   *)
(* division by zero, acos outside [-1,1], sqrt of a negative number, and a *)
(* magnitude beyond MaxMag (the model's overflow).  NaN is absorbing and   *)
(* every comparison with it is false, as in IEEE 754.                      *)
(***************************************************************************)
EXTENDS Integers, Sequences, FiniteSets, TLC

\* One unit is 1/Scale; Base * Base = Scale is used to split products.
Base == 1000
Scale == 1000000
\* Largest finite magnitude (1000.0); beyond it a result is non-finite.
MaxMag == 1000000000
\* The one non-finite value.
NaN == -2000000000

IsNaN(a) == a = NaN
Finite(a) == a # NaN

Abs(a) == IF a < 0 THEN -a ELSE a
Sgn(a) == IF a < 0 THEN -1 ELSE 1

\* A raw integer result as a number: out of range is non-finite.
Ranged(a) == IF a > MaxMag \/ a < -MaxMag THEN NaN ELSE a

FNeg(a) == IF IsNaN(a) THEN NaN ELSE -a
fabs(a) == IF IsNaN(a) THEN NaN ELSE Abs(a)
FAdd(a, b) == IF IsNaN(a) \/ IsNaN(b) THEN NaN ELSE Ranged(a + b)
FSub(a, b) == IF IsNaN(a) \/ IsNaN(b) THEN NaN ELSE Ranged(a - b)

\* Comparisons: false when either side is NaN.
FLt(a, b) == Finite(a) /\ Finite(b) /\ a < b
FGt(a, b) == Finite(a) /\ Finite(b) /\ a > b
FNe(a, b) == IsNaN(a) \/ IsNaN(b) \/ a # b

\* a*b/Scale rounded to nearest for 0 <= a, b <= MaxMag, computed on the
\* halves of a and b so that no intermediate exceeds 32 bits.
MulAbs(a, b) ==
    LET a1 == a \div Base
        a0 == a % Base
        b1 == b \div Base
        b0 == b % Base
    IN  IF a1 # 0 /\ b1 > MaxMag \div a1
        THEN NaN
        ELSE Ranged(a1 * b1
                    + (a1 * b0 + a0 * b1 + (a0 * b0 + (Scale \div 2)) \div Base) \div Base)

FMul(a, b) ==
    IF IsNaN(a) \/ IsNaN(b) THEN NaN
    ELSE LET p == MulAbs(Abs(a), Abs(b))
         IN  IF IsNaN(p) THEN NaN ELSE Sgn(a) * Sgn(b) * p

\* Long division: k more decimal digits of r/b (0 <= r < b) appended to the
\* quotient acc; the last digit is rounded to nearest.
RECURSIVE Digits(_, _, _, _)
Digits(acc, r, b, k) ==
    IF k = 0 THEN (IF 2 * r >= b THEN acc + 1 ELSE acc)
    ELSE Digits(acc * 10 + (r * 10) \div b, (r * 10) % b, b, k - 1)

\* a*Scale/b rounded to nearest for 0 <= a <= MaxMag, 0 < b <= MaxMag.  A
\* divisor too large for the long division's r*10 loses its last digit.
RECURSIVE DivAbs(_, _)
DivAbs(a, b) ==
    IF b > 200000000 THEN DivAbs(a \div 10, b \div 10)
    ELSE IF a \div b > MaxMag \div Scale THEN NaN
    ELSE Ranged(Digits(a \div b, a % b, b, 6))

\* IEEE division: x/0 is non-finite.
FDiv(a, b) ==
    IF IsNaN(a) \/ IsNaN(b) \/ b = 0 THEN NaN
    ELSE LET p == DivAbs(Abs(a), Abs(b))
         IN  IF IsNaN(p) THEN NaN ELSE Sgn(a) * Sgn(b) * p

\* floor(a*Scale/b) for a >= 0, b > 0, saturated at MaxMag.
RECURSIVE DigitsFloor(_, _, _, _)
DigitsFloor(acc, r, b, k) ==
    IF k = 0 THEN acc
    ELSE DigitsFloor(acc * 10 + (r * 10) \div b, (r * 10) % b, b, k - 1)

DivFloor(a, b) ==
    IF a \div b >= MaxMag \div Scale THEN MaxMag
    ELSE DigitsFloor(a \div b, a % b, b, 6)

\* Integer Newton iteration for floor(sqrt(a*Scale)), from a start x that is
\* not below the root.
RECURSIVE SqrtIter(_, _)
SqrtIter(a, x) ==
    LET y == (x + DivFloor(a, x)) \div 2
    IN  IF y >= x THEN x ELSE SqrtIter(a, y)

\* libm sqrt: exact on the squares of grid numbers, rounded down otherwise;
\* sqrt of a negative number is NaN.
sqrt(a) ==
    IF IsNaN(a) \/ a < 0 THEN NaN
    ELSE IF a = 0 THEN 0
    ELSE SqrtIter(a, IF a > 31622777 THEN 31622777 ELSE IF a > Scale THEN a ELSE Scale)

(***************************************************************************)
(* libm's sin and cos.  The argument is reduced by multiples of pi/2 and   *)
(* the Taylor kernels are evaluated with one more decimal digit than the   *)
(* grid (units of 1/(10*Scale)), then rounded to the grid.                 *)
(***************************************************************************)
\* pi/2 and 2*pi in units of 1/(10*Scale).
HalfPiFine == 15707963
TwoPiFine == 62831853

\* a*b/(10*Scale) rounded to nearest, for 0 <= a, b <= 2*10^7.
MulFineAbs(a, b) ==
    LET a1 == a \div 10000
        a0 == a % 10000
        b1 == b \div Base
        b0 == b % Base
    IN  a1 * b1 + (a1 * b0 * 10 + a0 * b1 + (a0 * b0 + 5000000) \div Base) \div 10000

MulFine(a, b) == Sgn(a) * Sgn(b) * MulFineAbs(Abs(a), Abs(b))

OneFine == 10 * Scale

\* sin r = r(1 - r2/6 (1 - r2/20 (1 - r2/42 (1 - r2/72)))) for |r| <= pi/4.
SinKernel(r) ==
    LET r2 == MulFine(r, r)
        t4 == OneFine - r2 \div 72
        t3 == OneFine - MulFine(r2, t4) \div 42
        t2 == OneFine - MulFine(r2, t3) \div 20
        t1 == OneFine - MulFine(r2, t2) \div 6
    IN  MulFine(r, t1)

\* cos r = 1 - r2/2 (1 - r2/12 (1 - r2/30 (1 - r2/56 (1 - r2/90)))).
CosKernel(r) ==
    LET r2 == MulFine(r, r)
        t5 == OneFine - r2 \div 90
        t4 == OneFine - MulFine(r2, t5) \div 56
        t3 == OneFine - MulFine(r2, t4) \div 30
        t2 == OneFine - MulFine(r2, t3) \div 12
    IN  OneFine - MulFine(r2, t2) \div 2

\* From units of 1/(10*Scale) to the grid, to nearest, symmetric in sign.
ToGrid(y) == Sgn(y) * ((Abs(y) + 5) \div 10)

\* The argument in fine units, brought into (-2*pi, 2*pi).
Reduce(a) == Sgn(a) * ((Abs(a) % (TwoPiFine \div 10)) * 10)

Quadrant(xf) == (xf + HalfPiFine \div 2) \div HalfPiFine

\* sin of q*pi/2 + r for |r| <= pi/4, q in 0..3: sin r, cos r, -sin r, -cos r.
SinAt(q, r) ==
    (IF q < 2 THEN 1 ELSE -1) * (IF q % 2 = 0 THEN SinKernel(r) ELSE CosKernel(r))

\* sin of xf + shift*pi/2, xf in fine units, rounded to the grid.
SinShifted(xf, k, shift) == ToGrid(SinAt((k + shift) % 4, xf - k * HalfPiFine))

SinFine(xf, shift) == SinShifted(xf, Quadrant(xf), shift)

sin(a) ==
    IF IsNaN(a) THEN NaN
    ELSE SinFine(IF Abs(a) <= 100000000 THEN 10 * a ELSE Reduce(a), 0)

\* cos x = sin(x + pi/2)
cos(a) ==
    IF IsNaN(a) THEN NaN
    ELSE SinFine(IF Abs(a) <= 100000000 THEN 10 * a ELSE Reduce(a), 1)

\* M_PI: pi rounded down to the grid, as the double M_PI lies below pi; so
\* sin(PI) is one unit and not 0, as sin(M_PI) is 1.2e-16 and not 0.
PI == 3141592

\* Newton iteration for the angle of the unit vector (c, s) from the start t:
\* t + (s cos t - c sin t), at most n times.
RECURSIVE AngleIter(_, _, _, _)
RECURSIVE AngleStep(_, _, _, _, _)
AngleIter(c, s, t, n) == AngleStep(c, s, t, n, FSub(FMul(s, cos(t)), FMul(c, sin(t))))

\* One step, d being the correction s cos t - c sin t.
AngleStep(c, s, t, n, d) ==
    IF n = 0 \/ d = 0 THEN t ELSE AngleIter(c, s, t + d, n - 1)

\* The start of the iteration: the nearest of 0, PI/2 and PI.
AngleStart(c, s) == IF c >= s THEN 0 ELSE IF -c >= s THEN PI ELSE PI \div 2

\* An angle brought into [0, PI].
AngleClamp(t) == IF t > PI THEN PI ELSE IF t < 0 THEN 0 ELSE t

\* The angle in [0, PI] of the unit vector (c, s), s >= 0.
AngleOf(c, s) ==
    IF IsNaN(c) \/ IsNaN(s) THEN NaN
    ELSE AngleClamp(AngleIter(c, s, AngleStart(c, s), 6))

\* atan2(y, x) for the length r of (x, y).
AngleOver(y, x, r) ==
    IF IsNaN(r) THEN NaN
    ELSE LET t == AngleOf(FDiv(x, r), FDiv(Abs(y), r))
         IN  IF IsNaN(t) THEN NaN ELSE Sgn(y) * t

\* libm atan2(y, x), in [-PI, PI]; atan2(0, 0) is 0.
atan2(y, x) ==
    IF IsNaN(y) \/ IsNaN(x) THEN NaN
    ELSE IF y = 0 /\ x >= 0 THEN 0
    ELSE AngleOver(y, x, sqrt(FAdd(FMul(x, x), FMul(y, y))))

\* libm acos, in [0, PI]; NaN outside [-1, 1].
acos(c) ==
    IF IsNaN(c) \/ c > Scale \/ c < -Scale THEN NaN
    ELSE atan2(sqrt(FMul(Scale - c, Scale + c)), c)

(***************************************************************************)
(* The collaborator types: osg::Vec3, osg::Vec4 and osg::Matrix.  A vector *)
(* is a function on the code's indices 0..2 (0..3); a matrix is m[r][c].   *)
(***************************************************************************)
Num(k) == k * Scale

Vec3(x, y, z) == [i \in 0..2 |-> CASE i = 0 -> x [] i = 1 -> y [] OTHER -> z]
Vec4(x, y, z, w) ==
    [i \in 0..3 |-> CASE i = 0 -> x [] i = 1 -> y [] i = 2 -> z [] OTHER -> w]

\* Vec3::length()
Vec3Length(v) ==
    sqrt(FAdd(FAdd(FMul(v[0], v[0]), FMul(v[1], v[1])), FMul(v[2], v[2])))

\* Vec3::operator*(const Vec3&): the dot product
Vec3Dot(a, b) ==
    FAdd(FAdd(FMul(a[0], b[0]), FMul(a[1], b[1])), FMul(a[2], b[2]))

\* Vec3::operator^(const Vec3&): the cross product
Vec3Cross(a, b) ==
    Vec3(FSub(FMul(a[1], b[2]), FMul(a[2], b[1])),
         FSub(FMul(a[2], b[0]), FMul(a[0], b[2])),
         FSub(FMul(a[0], b[1]), FMul(a[1], b[0])))

\* Vec3::operator/(float)
Vec3Div(v, s) == [i \in 0..2 |-> FDiv(v[i], s)]

\* Vec4::operator*(const Vec4&): the dot product of two 4-vectors
Vec4Dot(a, b) ==
    FAdd(FAdd(FAdd(FMul(a[0], b[0]), FMul(a[1], b[1])), FMul(a[2], b[2])),
         FMul(a[3], b[3]))

\* Vec4::operator*(float) and Vec4::operator+(const Vec4&)
Vec4Scale(v, s) == [i \in 0..3 |-> FMul(v[i], s)]
Vec4Add(a, b) == [i \in 0..3 |-> FAdd(a[i], b[i])]

(***************************************************************************)
(* Quat.  Every operation takes the object's _fv as it is before the call  *)
(* and yields _fv as it is after: the element writes of the code are the   *)
(* EXCEPT updates here, so what the code does not write keeps its value.   *)
(***************************************************************************)
\* const float epsilon = 0.00001f in makeRot(vec1, vec2)
epsilon == 10
\* const double epsilon = 0.00001 in slerp
slerp_epsilon == 10

\* makeRot with the angle not negated (line 22 left out).
makeRot_NoNegate(fv, angle, x, y, z) ==
    LET inversenorm  == FDiv(Scale, sqrt(FAdd(FAdd(FMul(x, x), FMul(y, y)), FMul(z, z))))
        coshalfangle == cos(FMul(Scale \div 2, angle))
        sinhalfangle == sin(FMul(Scale \div 2, angle))
    IN  [fv EXCEPT ![0] = FMul(FMul(x, sinhalfangle), inversenorm),
                   ![1] = FMul(FMul(y, sinhalfangle), inversenorm),
                   ![2] = FMul(FMul(z, sinhalfangle), inversenorm),
                   ![3] = coshalfangle]

\* void Quat::makeRot(const float angle, const float x, y, z)
makeRot(fv, angle, x, y, z) ==
    LET _angle       == FNeg(angle)
        inversenorm  == FDiv(Scale, sqrt(FAdd(FAdd(FMul(x, x), FMul(y, y)), FMul(z, z))))
        coshalfangle == cos(FMul(Scale \div 2, _angle))
        sinhalfangle == sin(FMul(Scale \div 2, _angle))
    IN  [fv EXCEPT ![0] = FMul(FMul(x, sinhalfangle), inversenorm),
                   ![1] = FMul(FMul(y, sinhalfangle), inversenorm),
                   ![2] = FMul(FMul(z, sinhalfangle), inversenorm),
                   ![3] = coshalfangle]

\* void Quat::makeRot(const float angle, const Vec3& vec)
makeRotVec(fv, angle, vec) == makeRot(fv, angle, vec[0], vec[1], vec[2])

\* cosangle of makeRot(vec1, vec2)
cosangle(vec1, vec2) ==
    FDiv(Vec3Dot(vec1, vec2), FMul(Vec3Length(vec1), Vec3Length(vec2)))

\* Regime with the two tests' signs exchanged: cosangle + 1 first.
Regime_SignsExchanged(vec1, vec2) ==
    IF FLt(fabs(FAdd(cosangle(vec1, vec2), Scale)), epsilon) THEN "coincident"
    ELSE IF FLt(fabs(FSub(cosangle(vec1, vec2), Scale)), epsilon) THEN "opposite"
    ELSE "general"

\* The branch makeRot(vec1, vec2) takes: the tests of lines 57 and 65, in
\* that order.
Regime(vec1, vec2) ==
    IF FLt(fabs(FSub(cosangle(vec1, vec2), Scale)), epsilon) THEN "coincident"
    ELSE IF FLt(fabs(FAdd(cosangle(vec1, vec2), Scale)), epsilon) THEN "opposite"
    ELSE "general"

\* bigposn with >= for >: the last index on a tie.
bigposn_LastOnTie(vec1) ==
    LET p1 == IF ~FLt(fabs(vec1[1]), fabs(vec1[0])) THEN 1 ELSE 0
    IN  IF ~FLt(fabs(vec1[2]), fabs(vec1[p1])) THEN 2 ELSE p1

\* bigposn: the index of vec1's component of largest magnitude, the first
\* such index on a tie.
bigposn(vec1) ==
    LET p1 == IF FGt(fabs(vec1[1]), fabs(vec1[0])) THEN 1 ELSE 0
    IN  IF FGt(fabs(vec1[2]), fabs(vec1[p1])) THEN 2 ELSE p1

\* The axis of the 'opposite' branch: vec1 ^ temp, temp = (1,1,1) with a 0 at
\* bigposn.
OppositeAxis(vec1) ==
    LET temp == [Vec3(Scale, Scale, Scale) EXCEPT ![bigposn(vec1)] = 0]
    IN  Vec3Cross(vec1, temp)

\* void Quat::makeRot(const Vec3& vec1, const Vec3& vec2)
makeRotFromTo(fv, vec1, vec2) ==
    CASE Regime(vec1, vec2) = "coincident" ->
            makeRot(fv, 0, Scale, 0, 0)
      [] Regime(vec1, vec2) = "opposite" ->
            makeRotVec(fv, PI, OppositeAxis(vec1))
      [] OTHER ->
            makeRotVec(fv, acos(cosangle(vec1, vec2)), Vec3Cross(vec1, vec2))

\* getRot with the angle of line 105 (atan2 not doubled).
getRot_HalfAngle(fv) ==
    LET sinhalfangle ==
            sqrt(FAdd(FAdd(FMul(fv[0], fv[0]), FMul(fv[1], fv[1])), FMul(fv[2], fv[2])))
    IN  [angle |-> atan2(sinhalfangle, fv[3]),
         vec   |-> Vec3Div(Vec3(fv[0], fv[1], fv[2]), sinhalfangle)]

\* void Quat::getRot(float& angle, Vec3& vec) const; the four-float overload
\* computes the same values.
getRot(fv) ==
    LET sinhalfangle ==
            sqrt(FAdd(FAdd(FMul(fv[0], fv[0]), FMul(fv[1], fv[1])), FMul(fv[2], fv[2])))
    IN  [angle |-> FMul(Num(2), atan2(sinhalfangle, fv[3])),
         vec   |-> Vec3Div(Vec3(fv[0], fv[1], fv[2]), sinhalfangle)]

\* A 'const Quat&' argument: the object itself (self) or another object
\* holding fv.
Deref(ref, this) == IF ref.self THEN this ELSE ref.fv

\* cosomega of slerp: from.asVec4() * to.asVec4()
cosomega(from, to) == Vec4Dot(from, to)

\* The test of line 136 reversed: (1 - cosomega) < epsilon.
Spherical_Reversed(from, to) == FLt(FSub(Scale, cosomega(from, to)), slerp_epsilon)

\* The test of line 136: the spherical weights are used.
Spherical(from, to) == FGt(FSub(Scale, cosomega(from, to)), slerp_epsilon)

\* scale_from and scale_to of slerp
\* sin(u * omega) / sinomega, sinomega = sin(omega): lines 140-143
SphericalWeight(u, omega) == FDiv(sin(FMul(u, omega)), sin(omega))

scale_from(t, from, to) ==
    IF Spherical(from, to)
    THEN SphericalWeight(FSub(Scale, t), acos(cosomega(from, to)))
    ELSE FSub(Scale, t)

scale_to(t, from, to) ==
    IF Spherical(from, to)
    THEN SphericalWeight(t, acos(cosomega(from, to)))
    ELSE t

\* slerp with the two weights exchanged.
slerp_WeightsExchanged(fv, t, fromRef, toRef) ==
    LET from == Deref(fromRef, fv)
        to   == Deref(toRef, fv)
    IN  Vec4Add(Vec4Scale(from, scale_to(t, from, to)),
                Vec4Scale(to, scale_from(t, from, to)))

\* slerp along the shorter arc: to and cosomega negated when cosomega < 0.
slerp_ShorterArc(fv, t, fromRef, toRef) ==
    LET from == Deref(fromRef, fv)
        to0  == Deref(toRef, fv)
        to   == IF FLt(cosomega(from, to0), 0) THEN [i \in 0..3 |-> FNeg(to0[i])] ELSE to0
    IN  Vec4Add(Vec4Scale(from, scale_from(t, from, to)),
                Vec4Scale(to, scale_to(t, from, to)))

\* void Quat::slerp(const float t, const Quat& from, const Quat& to): the
\* right-hand side is evaluated whole, then assigned to _fv.
slerp(fv, t, fromRef, toRef) ==
    LET from == Deref(fromRef, fv)
        to   == Deref(toRef, fv)
    IN  Vec4Add(Vec4Scale(from, scale_from(t, from, to)),
                Vec4Scale(to, scale_to(t, from, to)))

\* int nxt[3] = {1, 2, 0}
nxt == [i \in 0..2 |-> (i + 1) % 3]

\* tr of set
trace(m) == FAdd(FAdd(m[0][0], m[1][1]), m[2][2])

\* biggest with < for >: the index of the smallest diagonal entry.
biggest_Smallest(m) ==
    LET i1 == IF FLt(m[1][1], m[0][0]) THEN 1 ELSE 0
    IN  IF FLt(m[2][2], m[i1][i1]) THEN 2 ELSE i1

\* i of set's else branch: the index of the largest diagonal entry
biggest(m) ==
    LET i1 == IF FGt(m[1][1], m[0][0]) THEN 1 ELSE 0
    IN  IF FGt(m[2][2], m[i1][i1]) THEN 2 ELSE i1

\* The value set passes to sqrt: tr + 1.0 (line 183), or
\* (m(i,i) - (m(j,j) + m(k,k))) + 1.0 (line 201).
radicand(m) ==
    IF FGt(trace(m), 0) THEN FAdd(trace(m), Scale)
    ELSE LET i == biggest(m)
             j == nxt[i]
             k == nxt[j]
         IN  FAdd(FSub(m[i][i], FAdd(m[j][j], m[k][k])), Scale)

\* The contents of an uninitialized local (float tq[4]).
Indeterminate == -1999999999

\* set with k = nxt[i] for k = nxt[j]: tq[j] is written twice and one
\* element of tq never.
set_KSlip(fv, m) ==
    IF FGt(trace(m), 0)
    THEN LET s0 == sqrt(radicand(m))
             s  == FDiv(Scale \div 2, s0)
         IN  [fv EXCEPT ![3] = FDiv(s0, Num(2)),
                        ![0] = FMul(FSub(m[1][2], m[2][1]), s),
                        ![1] = FMul(FSub(m[2][0], m[0][2]), s),
                        ![2] = FMul(FSub(m[0][1], m[1][0]), s)]
    ELSE LET i  == biggest(m)
             j  == nxt[i]
             k  == nxt[i]
             s0 == sqrt(radicand(m))
             s  == IF FNe(s0, 0) THEN FDiv(Scale \div 2, s0) ELSE s0
             tq == [[[[[n \in 0..3 |-> Indeterminate]
                        EXCEPT ![i] = FMul(s0, Scale \div 2)]
                        EXCEPT ![3] = FMul(FSub(m[j][k], m[k][j]), s)]
                        EXCEPT ![j] = FMul(FAdd(m[i][j], m[j][i]), s)]
                        EXCEPT ![k] = FMul(FAdd(m[i][k], m[k][i]), s)]
         IN  [fv EXCEPT ![0] = tq[0], ![1] = tq[1], ![2] = tq[2], ![3] = tq[3]]

\* void Quat::set(const Matrix& m)
set(fv, m) ==
    IF FGt(trace(m), 0)
    THEN LET s0 == sqrt(radicand(m))
             s  == FDiv(Scale \div 2, s0)
         IN  [fv EXCEPT ![3] = FDiv(s0, Num(2)),
                        ![0] = FMul(FSub(m[1][2], m[2][1]), s),
                        ![1] = FMul(FSub(m[2][0], m[0][2]), s),
                        ![2] = FMul(FSub(m[0][1], m[1][0]), s)]
    ELSE LET i  == biggest(m)
             j  == nxt[i]
             k  == nxt[j]
             s0 == sqrt(radicand(m))
             s  == IF FNe(s0, 0) THEN FDiv(Scale \div 2, s0) ELSE s0
             tq == [[[[[n \in 0..3 |-> Indeterminate]
                        EXCEPT ![i] = FMul(s0, Scale \div 2)]
                        EXCEPT ![3] = FMul(FSub(m[j][k], m[k][j]), s)]
                        EXCEPT ![j] = FMul(FAdd(m[i][j], m[j][i]), s)]
                        EXCEPT ![k] = FMul(FAdd(m[i][k], m[k][i]), s)]
         IN  [fv EXCEPT ![0] = tq[0], ![1] = tq[1], ![2] = tq[2], ![3] = tq[3]]

\* void Quat::get(Matrix& m) const
get(fv) ==
    LET x2 == FAdd(fv[0], fv[0])
        y2 == FAdd(fv[1], fv[1])
        z2 == FAdd(fv[2], fv[2])
        xx == FMul(fv[0], x2)
        xy == FMul(fv[0], y2)
        xz == FMul(fv[0], z2)
        yy == FMul(fv[1], y2)
        yz == FMul(fv[1], z2)
        zz == FMul(fv[2], z2)
        wx == FMul(fv[3], x2)
        wy == FMul(fv[3], y2)
        wz == FMul(fv[3], z2)
    IN  [r \in 0..3 |->
          CASE r = 0 -> Vec4(FSub(Scale, FAdd(yy, zz)), FSub(xy, wz), FAdd(xz, wy), 0)
            [] r = 1 -> Vec4(FAdd(xy, wz), FSub(Scale, FAdd(xx, zz)), FSub(yz, wx), 0)
            [] r = 2 -> Vec4(FSub(xz, wy), FAdd(yz, wx), FSub(Scale, FAdd(xx, yy)), 0)
            [] OTHER -> Vec4(0, 0, 0, Scale)]

(***************************************************************************)
(* The state: one Quat object (fv), one Matrix object (m), the two         *)
(* out-parameters of getRot (angle, vec), and the history of the calls:    *)
(* last is the last operation that wrote the Quat, with its arguments and  *)
(* the Quat's contents before it (pre); msrc is the quaternion the matrix  *)
(* was last written from by get (mOf, for the matrix a set was given),     *)
(* rsrc the one angle and vec were last read from by getRot; n is the      *)
(* number of calls made.                                                   *)
(***************************************************************************)
VARIABLES fv, m, angle, vec, last, msrc, rsrc, n

vars == <<fv, m, angle, vec, last, msrc, rsrc, n>>

\* Bounds of the model.
MaxCoord == 2
AngleSteps == 7
TSteps == 4
MaxDiag == 2
MaxOps == 2

Identity == Vec4(0, 0, 0, Scale)
Zero3 == Vec3(0, 0, 0)
Zero4 == Vec4(0, 0, 0, 0)
IdentityMatrix == [r \in 0..3 |-> [c \in 0..3 |-> IF r = c THEN Scale ELSE 0]]

\* Another object holding q, and the object itself, as a 'const Quat&'.
Other(q) == [self |-> FALSE, fv |-> q]
Self == [self |-> TRUE, fv |-> Zero4]

NoCall ==
    [op |-> "none", a |-> 0, v1 |-> Zero3, v2 |-> Zero3, t |-> 0,
     from |-> Zero4, to |-> Zero4, fromSelf |-> FALSE, toSelf |-> FALSE,
     m |-> IdentityMatrix, mOf |-> [valid |-> FALSE, fv |-> Zero4],
     pre |-> Zero4]

\* Integer vectors with components up to MaxCoord, the zero vector excluded
\* (a zero axis is outside makeRot's precondition).
Coords == {Num(k) : k \in -MaxCoord..MaxCoord}
Vecs == {Vec3(x, y, z) : x \in Coords, y \in Coords, z \in Coords} \ {Zero3}

\* Multiples of pi/4 up to AngleSteps of them, both signs.
Angles == {k * (PI \div 4) : k \in -AngleSteps..AngleSteps}

\* Interpolation parameters k/TSteps in [0, 1].
Ts == {(k * Scale) \div TSteps : k \in 0..TSteps}

\* Quaternions with components on the grid: unit ones (with their negations
\* and conjugates), ones whose dot products straddle 1 - epsilon, and ones
\* that are not unit.
UnitQuats ==
    {Identity, Vec4(Scale, 0, 0, 0), Vec4(0, 0, Scale, 0),
     Vec4(600000, 0, 0, 800000), Vec4(0, 600000, 0, -800000),
     Vec4(200000, 400000, 400000, 800000), Vec4(800000, -400000, 400000, 200000),
     Vec4(-400000, 800000, 200000, -400000), Vec4(400000, 200000, -800000, 400000),
     Vec4(500000, 500000, 500000, 500000), Vec4(-500000, 500000, -500000, -500000),
     Vec4(0, 0, 0, -Scale), Vec4(-600000, 0, 0, -800000),
     Vec4(-200000, -400000, -400000, -800000)}

OffUnitQuats ==
    {Vec4(0, 0, 0, 999990), Vec4(0, 0, 0, 999989), Vec4(0, 0, 0, 999995),
     Vec4(0, 0, 0, Num(2)),
     Vec4(0, 0, 0, 500000), Vec4(0, 500000, 0, 500000), Zero4,
     Vec4(0, 0, 0, 1000010), Vec4(Num(1), Num(1), 0, 0)}

Quats == UnitQuats \cup OffUnitQuats

\* Matrices with finite entries that need not be rotations: every diagonal
\* of halves up to MaxDiag of them, with three off-diagonal patterns.
Diags == {k * (Scale \div 2) : k \in -MaxDiag..MaxDiag}
OffDiags ==
    {[r \in 0..3 |-> [c \in 0..3 |-> 0]],
     [r \in 0..3 |-> [c \in 0..3 |-> IF r < c THEN Scale ELSE -Scale]],
     [r \in 0..3 |-> [c \in 0..3 |-> Num(r + 1) - Num(2 * c) + 500000]]}
Mats ==
    {[r \in 0..3 |-> [c \in 0..3 |->
        IF r = c /\ r < 3 THEN d[r + 1] ELSE o[r][c]]] :
        d \in Diags \X Diags \X Diags, o \in OffDiags}

(***************************************************************************)
(* The operations, one action per call.                                    *)
(***************************************************************************)
\* q.makeRot(a, v)
DoMakeRot(a, v) ==
    /\ fv' = makeRotVec(fv, a, v)
    /\ last' = [NoCall EXCEPT !.op = "makeRot", !.a = a, !.v1 = v, !.pre = fv]
    /\ n' = n + 1
    /\ UNCHANGED <<m, angle, vec, msrc, rsrc>>

\* q.makeRot(v1, v2)
DoMakeRotFromTo(v1, v2) ==
    /\ fv' = makeRotFromTo(fv, v1, v2)
    /\ last' = [NoCall EXCEPT !.op = "makeRotFromTo", !.v1 = v1, !.v2 = v2, !.pre = fv]
    /\ n' = n + 1
    /\ UNCHANGED <<m, angle, vec, msrc, rsrc>>

\* q.getRot(angle, vec)
DoGetRot ==
    /\ angle' = getRot(fv).angle
    /\ vec' = getRot(fv).vec
    /\ rsrc' = [valid |-> TRUE, fv |-> fv]
    /\ n' = n + 1
    /\ UNCHANGED <<fv, m, last, msrc>>

\* q.slerp(t, from, to), from and to being q itself or another object
DoSlerp(t, fromRef, toRef) ==
    /\ fv' = slerp(fv, t, fromRef, toRef)
    /\ last' = [NoCall EXCEPT !.op = "slerp", !.t = t,
                              !.from = Deref(fromRef, fv), !.to = Deref(toRef, fv),
                              !.fromSelf = fromRef.self, !.toSelf = toRef.self,
                              !.pre = fv]
    /\ n' = n + 1
    /\ UNCHANGED <<m, angle, vec, msrc, rsrc>>

\* q.set(m)
DoSet ==
    /\ fv' = set(fv, m)
    /\ last' = [NoCall EXCEPT !.op = "set", !.m = m, !.mOf = msrc, !.pre = fv]
    /\ n' = n + 1
    /\ UNCHANGED <<m, angle, vec, msrc, rsrc>>

\* q.get(m)
DoGet ==
    /\ m' = get(fv)
    /\ msrc' = [valid |-> TRUE, fv |-> fv]
    /\ n' = n + 1
    /\ UNCHANGED <<fv, angle, vec, last, rsrc>>

InitRest ==
    /\ angle = 0
    /\ vec = Zero3
    /\ last = NoCall
    /\ msrc = [valid |-> FALSE, fv |-> Zero4]
    /\ rsrc = [valid |-> FALSE, fv |-> Zero4]
    /\ n = 0

(***************************************************************************)
(* Comparison up to rounding.  Tol is two epsilons (0.00002): the products *)
(* and quotients of one operation are each rounded to the grid.            *)
(***************************************************************************)
Tol == 2 * epsilon

Near(a, b) == Finite(a) /\ Finite(b) /\ Abs(a - b) <= Tol
NearVec3(u, v) == \A i \in 0..2 : Near(u[i], v[i])
NearVec4(p, q) == \A i \in 0..3 : Near(p[i], q[i])
\* The same, for vectors of length len: Tol per unit of length.
NearVec3Of(len, u, v) ==
    \A i \in 0..2 : Finite(u[i]) /\ Finite(v[i]) /\ Abs(u[i] - v[i]) <= FMul(Tol, len)
Neg3(v) == [i \in 0..2 |-> FNeg(v[i])]
Neg4(q) == [i \in 0..3 |-> FNeg(q[i])]
Times3(k, v) == [i \in 0..2 |-> FMul(k, v[i])]
Norm2(q) == Vec4Dot(q, q)

\* 2*pi on the grid, and equality of two angles modulo 2*pi.
TwoPi == 2 * PI + 1
SameAngle(x, y) == \E k \in -2..2 : Near(x, y + k * TwoPi)

(***************************************************************************)
(* Angle and axis: makeRot(angle, axis), then getRot.                      *)
(***************************************************************************)
InitAA == fv = Identity /\ m = IdentityMatrix /\ InitRest

NextAA ==
    \/ n = 0 /\ \E a \in Angles, v \in Vecs : DoMakeRot(a, v)
    \/ n = 1 /\ DoGetRot

SpecAA == InitAA /\ [][NextAA]_vars

\* The length getRot divides by: sinhalfangle.
VectorPart(q) ==
    sqrt(FAdd(FAdd(FMul(q[0], q[0]), FMul(q[1], q[1])), FMul(q[2], q[2])))

\* getRot has read angle and vec from the quaternion makeRot(a, v) built.
RoundTripAA == last.op = "makeRot" /\ rsrc.valid /\ rsrc.fv = fv

\* (angle, vec) is the rotation by -a about v/|v|: the same angle about the
\* same axis, or the opposite angle about the opposite axis, modulo 2*pi.
SameRotation ==
    LET unit == Vec3Div(last.v1, Vec3Length(last.v1))
    IN  \/ SameAngle(angle, -last.a) /\ NearVec3(vec, unit)
        \/ SameAngle(angle, last.a) /\ NearVec3(vec, Neg3(unit))

\* C2 as stated: for every angle a and every nonzero axis v, getRot of
\* makeRot(a, v) returns a unit axis parallel to v and the angle a modulo
\* 2*pi up to the internal negation, i.e. the rotation (-a, v/|v|).
C2_RoundTripEveryAngle == RoundTripAA => SameRotation

\* C2 amended: the same, for the angles a at which the quaternion built has a
\* vector part of nonzero length (sinhalfangle # 0, a not a multiple of
\* 2*pi); at the others getRot divides 0 by 0.
C2_RoundTrip == RoundTripAA /\ VectorPart(fv) # 0 => SameRotation

C2_Witness ==
    /\ RoundTripAA
    /\ last.a = 3 * (PI \div 4)
    /\ last.v1 = Vec3(Num(1), Num(-2), Num(2))
    /\ VectorPart(fv) # 0
    /\ SameRotation

\* C3: makeRot(a, v) sets (x,y,z) = v sin(-a/2)/|v| and w = cos(-a/2); the
\* result has norm 1 and is the same for v scaled by k > 0; and
\* makeRot(pi/2, (0,0,1)) is (0, 0, -sin(pi/4), cos(pi/4)).
C3_MakeRot ==
    last.op = "makeRot" /\ n = 1 =>
        LET half == FDiv(FNeg(last.a), Num(2))
            len  == Vec3Length(last.v1)
        IN  /\ \A i \in 0..2 : Near(fv[i], FDiv(FMul(last.v1[i], sin(half)), len))
            /\ Near(fv[3], cos(half))
            /\ Near(Norm2(fv), Scale)
            /\ \A k \in {Scale \div 2, Num(2), Num(3)} :
                  NearVec4(fv, makeRotVec(last.pre, last.a, Times3(k, last.v1)))
            /\ (last.a = 2 * (PI \div 4) /\ last.v1 = Vec3(0, 0, Scale)
                  => fv = Vec4(0, 0, -707107, 707107))

C3_Witness ==
    /\ last.op = "makeRot"
    /\ last.a = 2 * (PI \div 4)
    /\ last.v1 = Vec3(0, 0, Scale)
    /\ fv = Vec4(0, 0, -707107, 707107)

(***************************************************************************)
(* Vector to vector: makeRot(vec1, vec2) with vec2 a multiple of vec1 (the *)
(* coincident and the opposite regimes) or one of the unit axes (the       *)
(* general regime, unless vec1 lies on that axis).                         *)
(***************************************************************************)
InitVV == fv = Vec4(600000, 0, 0, 800000) /\ m = IdentityMatrix /\ InitRest

Multiples(v) == {Times3(k, v) : k \in {Num(1), Num(2), Num(-1), Num(-2)}}
UnitAxes == {Vec3(Scale, 0, 0), Vec3(0, Scale, 0), Vec3(0, 0, Scale)}

NextVV ==
    n = 0 /\ \E v1 \in Vecs : \E v2 \in Multiples(v1) \cup UnitAxes :
                DoMakeRotFromTo(v1, v2)

SpecVV == InitVV /\ [][NextVV]_vars

\* v turned by the unit quaternion q: v + 2w(u ^ v) + 2 u ^ (u ^ v), u the
\* vector part of q.
Rotated(q, v) ==
    LET u   == Vec3(q[0], q[1], q[2])
        uv  == Vec3Cross(u, v)
        uuv == Vec3Cross(u, uv)
    IN  [i \in 0..2 |->
            FAdd(v[i], FAdd(FMul(Num(2), FMul(q[3], uv[i])), FMul(Num(2), uuv[i])))]

\* The index of the component of v of largest magnitude, the first on a tie.
FirstLargest(v) ==
    CHOOSE i \in 0..2 :
        /\ \A j \in 0..2 : Abs(v[j]) <= Abs(v[i])
        /\ \A j \in 0..2 : j < i => Abs(v[j]) < Abs(v[i])

\* v ^ ((1,1,1) with a 0 at index p), component by component.
CrossWithOnes(v, p) ==
    LET h == [i \in 0..2 |-> IF i = p THEN 0 ELSE 1]
    IN  Vec3(v[1] * h[2] - v[2] * h[1],
             v[2] * h[0] - v[0] * h[2],
             v[0] * h[1] - v[1] * h[0])

\* C6: makeRot(v, -v) takes the 'opposite' regime; its axis, v crossed with
\* (1,1,1) zeroed at the index of v's largest component (first on ties), is
\* nonzero and perpendicular to v; the quaternion is the rotation of angle pi
\* about that axis (vector part the unit axis up to sign, w = 0), and it
\* turns v into -v.
C6_Opposite ==
    last.op = "makeRotFromTo" /\ last.v2 = Neg3(last.v1) =>
        LET v    == last.v1
            axis == CrossWithOnes(v, FirstLargest(v))
            unit == Vec3Div(axis, Vec3Length(axis))
            u    == Vec3(fv[0], fv[1], fv[2])
        IN  /\ Regime(v, last.v2) = "opposite"
            /\ OppositeAxis(v) = axis
            /\ axis # Zero3
            /\ Vec3Dot(axis, v) = 0
            /\ Near(fv[3], 0)
            /\ NearVec3(u, unit) \/ NearVec3(u, Neg3(unit))
            /\ NearVec3Of(Vec3Length(v), Rotated(fv, v), Neg3(v))

C6_Witness ==
    /\ last.op = "makeRotFromTo"
    /\ last.v1 = Vec3(Num(-2), Num(2), Num(1))
    /\ last.v2 = Vec3(Num(2), Num(-2), Num(-1))
    /\ FirstLargest(last.v1) = 0
    /\ NearVec3Of(Vec3Length(last.v1), Rotated(fv, last.v1), last.v2)

\* C7: makeRot(v, v) takes the 'coincident' regime, which is tested first,
\* and yields the identity quaternion (0,0,0,1); the cross-product branch,
\* whose axis v ^ v is the zero vector, is not reached.
C7_Coincident ==
    last.op = "makeRotFromTo" /\ last.v2 = last.v1 =>
        /\ Regime(last.v1, last.v2) = "coincident"
        /\ Vec3Cross(last.v1, last.v2) = Zero3
        /\ fv = Identity

C7_Witness ==
    /\ last.op = "makeRotFromTo"
    /\ last.v1 = Vec3(Num(1), Num(-1), Num(2))
    /\ last.v2 = last.v1
    /\ last.pre # Identity
    /\ fv = Identity

(***************************************************************************)
(* Slerp: one call q.slerp(t, from, to) on a quaternion q, each of from    *)
(* and to being q itself or another quaternion.                            *)
(***************************************************************************)
InitSlerp == fv = Vec4(0, 600000, 0, 800000) /\ m = IdentityMatrix /\ InitRest

Refs == {Self} \cup {Other(q) : q \in Quats}

NextSlerp ==
    n = 0 /\ \E t \in Ts : \E f \in Refs : \E g \in Refs : DoSlerp(t, f, g)

SpecSlerp == InitSlerp /\ [][NextSlerp]_vars

\* The 4-component dot product of the last slerp's from and to.
Dot4 ==
    FAdd(FAdd(FAdd(FMul(last.from[0], last.to[0]), FMul(last.from[1], last.to[1])),
              FMul(last.from[2], last.to[2])),
         FMul(last.from[3], last.to[3]))

\* from*wf + to*wt, component by component.
Blend(wf, wt) ==
    [i \in 0..3 |-> FAdd(FMul(last.from[i], wf), FMul(last.to[i], wt))]

\* C4 as stated: for every pair of quaternions, slerp(0, a, b) is a and
\* slerp(1, a, b) is b.
C4_EndpointsEveryPair ==
    last.op = "slerp" =>
        /\ last.t = 0 => fv = last.from
        /\ last.t = Scale => fv = last.to

\* C4 amended: the same, for the pairs whose dot product is at least -1 (so
\* for all unit quaternions); below -1 acos has no value and every component
\* of the result is NaN.
C4_Endpoints ==
    last.op = "slerp" /\ Dot4 >= -Scale =>
        /\ last.t = 0 => fv = last.from
        /\ last.t = Scale => fv = last.to

\* A spherical call with a negative dot product and t = 1 that left to in q.
C4_Witness ==
    /\ last.op = "slerp"
    /\ last.from = Vec4(200000, 400000, 400000, 800000)
    /\ last.to = Vec4(-600000, 0, 0, -800000)
    /\ Dot4 < 0
    /\ last.t = Scale
    /\ fv = last.to
    /\ fv # last.pre

\* C5 as stated: for every quaternion a and every t in [0,1], slerp(t, a, a)
\* is a (up to the rounding of the two products).
C5_EqualEndpointsEveryQuat ==
    last.op = "slerp" /\ last.from = last.to => NearVec4(fv, last.from)

\* C5 amended: the same, for the quaternions a with 1 - dot(a, a) <= 1e-5 (so
\* for all unit quaternions), where the linear weights are used, and for the
\* zero quaternion; for any other a only at t = 0 and t = 1, the spherical
\* weights having a sum above 1 in between.
C5_EqualEndpoints ==
    /\ last.op = "slerp"
    /\ last.from = last.to
    /\ \/ Scale - Dot4 <= slerp_epsilon
       \/ last.from = Zero4
       \/ last.t \in {0, Scale}
    => NearVec4(fv, last.from)

C5_Witness ==
    /\ last.op = "slerp"
    /\ last.from = Vec4(200000, 400000, 400000, 800000)
    /\ last.to = last.from
    /\ last.t = Scale \div 2
    /\ fv = last.from
    /\ fv # last.pre

\* C9: the one test on cosomega is (1 - cosomega) > 1e-5; when it holds, for
\* a negative cosomega too, the result is from*sin((1-t)omega)/sin(omega) +
\* to*sin(t*omega)/sin(omega) with omega = acos(cosomega), with to itself and
\* not renormalized; otherwise the result is from*(1-t) + to*t.
C9_Weights ==
    last.op = "slerp" =>
        LET omega == acos(Dot4)
        IN  IF Scale - Dot4 > 10
            THEN fv = Blend(FDiv(sin(FMul(Scale - last.t, omega)), sin(omega)),
                            FDiv(sin(FMul(last.t, omega)), sin(omega)))
            ELSE fv = Blend(Scale - last.t, last.t)

\* A call with cosomega < 0 and 0 < t < 1: the result is the blend with to,
\* and the blend with -to would have been another quaternion.
C9_Witness ==
    /\ last.op = "slerp"
    /\ last.from = Identity
    /\ last.to = Vec4(0, 600000, 0, -800000)
    /\ Dot4 = -800000
    /\ last.t = Scale \div 2
    /\ fv = Blend(FDiv(sin(FMul(Scale \div 2, acos(Dot4))), sin(acos(Dot4))),
                  FDiv(sin(FMul(Scale \div 2, acos(Dot4))), sin(acos(Dot4))))
    /\ ~NearVec4(fv, Vec4(0, -316228, 0, 948683))

(***************************************************************************)
(* Matrix: get and set, up to two calls, from a unit quaternion and a      *)
(* matrix that need not be a rotation.                                     *)
(***************************************************************************)
InitMat == fv \in UnitQuats /\ m \in Mats /\ InitRest

NextMat ==
    \/ n < 2 /\ DoGet
    \/ n < 2 /\ DoSet

SpecMat == InitMat /\ [][NextMat]_vars

\* C1: for every unit quaternion q, set applied to the matrix get wrote for
\* q yields q or its negation, in both branches of set.
C1_MatrixRoundTrip ==
    last.op = "set" /\ last.mOf.valid /\ Norm2(last.mOf.fv) = Scale =>
        NearVec4(fv, last.mOf.fv) \/ NearVec4(fv, Neg4(last.mOf.fv))

\* An index of the largest of the three diagonal entries of the matrix.
LargestDiag(mat) == CHOOSE i \in 0..2 : \A j \in 0..2 : mat[j][j] <= mat[i][i]

\* C10: for every matrix with finite entries set takes the square root of a
\* value that is at least 1 and never divides by zero: tr + 1 > 1 when
\* tr > 0, and otherwise m(i,i) - m(j,j) - m(k,k) + 1 >= 1 with i the index
\* of the largest diagonal entry and j, k the next two indices cyclically.
C10_Radicand ==
    last.op = "set" =>
        LET mat == last.m
            tr  == mat[0][0] + mat[1][1] + mat[2][2]
            i   == LargestDiag(mat)
            j   == (i + 1) % 3
            k   == (i + 2) % 3
        IN  /\ tr > 0 => radicand(mat) = tr + Scale /\ radicand(mat) > Scale
            /\ tr <= 0 => /\ radicand(mat) = mat[i][i] - mat[j][j] - mat[k][k] + Scale
                          /\ radicand(mat) >= Scale
            /\ sqrt(radicand(mat)) >= Scale
            /\ \A c \in 0..3 : Finite(fv[c]) /\ fv[c] # Indeterminate

\* set on a matrix that is no rotation, in the largest-diagonal branch with
\* the largest entry not the first: the radicand is 2.
C10_Witness ==
    /\ last.op = "set"
    /\ ~last.mOf.valid
    /\ last.m[0][0] = -Scale /\ last.m[1][1] = 0 /\ last.m[2][2] = 0
    /\ last.m[0][1] = Scale
    /\ biggest(last.m) = 1
    /\ radicand(last.m) = Num(2)
    /\ \A c \in 0..3 : Finite(fv[c])

(***************************************************************************)
(* The object's life: up to MaxOps calls, in any order, on one Quat and    *)
(* one Matrix.                                                             *)
(***************************************************************************)
SomeAngles == {2 * (PI \div 4), -3 * (PI \div 4)}
SomeAxes == {Vec3(0, 0, Scale), Vec3(Num(1), Num(-2), Num(2))}
SomeVecs == {Vec3(Scale, 0, 0), Vec3(-Scale, 0, 0), Vec3(0, Num(2), Num(1))}
SomeRefs == {Self, Other(Vec4(0, 600000, 0, -800000)), Other(Vec4(0, 0, 0, 500000))}
SomeTs == {Scale \div 4, Scale}
SomeMats ==
    {IdentityMatrix,
     [r \in 0..3 |-> [c \in 0..3 |->
        IF r = c THEN (IF r = 1 THEN Scale ELSE -Scale) ELSE Num(r) - Num(2 * c)]]}

Init ==
    /\ fv \in {Identity, Vec4(600000, 0, 0, 800000)}
    /\ m \in SomeMats
    /\ InitRest

Next ==
    \/ n < MaxOps /\ \E a \in SomeAngles, v \in SomeAxes : DoMakeRot(a, v)
    \/ n < MaxOps /\ \E v1 \in SomeVecs, v2 \in SomeVecs : DoMakeRotFromTo(v1, v2)
    \/ n < MaxOps /\ \E t \in SomeTs, f \in SomeRefs, g \in SomeRefs : DoSlerp(t, f, g)
    \/ n < MaxOps /\ DoSet
    \/ n < MaxOps /\ DoGet
    \/ n < MaxOps /\ DoGetRot

Spec == Init /\ [][Next]_vars

\* A Quat none of whose components has been written.
Unwritten == [i \in 0..3 |-> Indeterminate]

\* The last operation, with its arguments, applied to an unwritten Quat.
Replayed ==
    CASE last.op = "makeRot" -> makeRotVec(Unwritten, last.a, last.v1)
      [] last.op = "makeRotFromTo" -> makeRotFromTo(Unwritten, last.v1, last.v2)
      [] last.op = "slerp" -> slerp(Unwritten, last.t, Other(last.from), Other(last.to))
      [] last.op = "set" -> set(Unwritten, last.m)
      [] OTHER -> fv

\* C8: after any sequence of makeRot, makeRot(vec1, vec2), slerp and set
\* calls, the four components are what the last call alone, with its
\* arguments, writes into an unwritten Quat: none keeps a value of an earlier
\* call or is left unwritten, in any branch, slerp from or to the object
\* itself included.
C8_FullOverwrite ==
    last.op # "none" =>
        /\ fv = Replayed
        /\ \A i \in 0..3 : fv[i] # Indeterminate

\* A second call, slerp from the object itself, after a first that wrote it.
C8_Witness ==
    /\ n = 2
    /\ last.op = "slerp"
    /\ last.fromSelf /\ ~last.toSelf
    /\ last.from = last.pre
    /\ last.pre \notin {Identity, Vec4(600000, 0, 0, 800000)}
    /\ \A i \in 0..3 : Finite(fv[i]) /\ fv[i] # last.pre[i]
    /\ fv = Replayed

=============================================================================
